---- MODULE Spec2Model ----
(***************************************************************************)
(* A model of page_objects/__init__.py: the PageElement / MultiPageElement *)
(* descriptors, the IframeElement context manager and the PageObject base  *)
(* class, together with the part of the selenium driver they talk to.      *)
(*                                                                         *)
(* Five specifications share the variables:                                *)
(*   Spec      a constructed binding read and written through a page       *)
(*             object while the browser DOM changes underneath;            *)
(*   FairSpec  Spec with the fairness of a blocking WebDriverWait;         *)
(*   SpecCtor  PageElement.__init__ over all keyword combinations;         *)
(*   SpecFrame a `with IframeElement(f):` block;                           *)
(*   SpecPage  PageObject.__init__ and PageObject.get.                     *)
(***************************************************************************)
EXTENDS Integers, Sequences, FiniteSets, TLC

VARIABLES
    args,      \* the arguments the binding's constructor was called with
    binding,   \* the descriptor object (self): locator, has_context, ...
    ctorExc,   \* exception raised by the constructor ("" when none)
    dom,       \* browser DOM: for every root, the elements matching the locator
    pc,        \* position of the running descriptor call
    op,        \* the descriptor call in progress / last completed
    clock,     \* time spent in the current WebDriverWait, in poll intervals
    calls,     \* driver queries issued by the current / last descriptor call
    out,       \* what the last descriptor call gave its caller
    sent,      \* send_keys events of the last descriptor call
    fresh,     \* TRUE while the DOM is as the last completed call left it
    frame,     \* state of a `with IframeElement(...)` statement
    page       \* state of a PageObject and the navigations it requested

vars == <<args, binding, ctorExc, dom, pc, op, clock, calls, out, sent, fresh,
          frame, page>>

bindVars == <<args, binding, ctorExc, dom, pc, op, clock, calls, out, sent, fresh>>

-----------------------------------------------------------------------------
(* Bounds *)

NumElems == 2        \* elements the DOM may hold
MaxWaitTime == 2     \* largest wait_time, in poll intervals
MaxKwargs == 2       \* largest number of locator keywords in one construction
MaxBlockSteps == 3   \* statements executed inside a with-block
MaxNav == 2          \* navigations recorded per page object

(* Program constants *)

DefaultWaitTime == 5

-----------------------------------------------------------------------------
(* Python values *)

None == [tag |-> "None", val |-> <<>>]
Elem(e) == [tag |-> "elem", val |-> <<e>>]
List(s) == [tag |-> "list", val |-> s]
Callable == [tag |-> "callable", val |-> <<>>]

\* Python truthiness of the values above: None and [] are false, a WebElement
\* and a function are true.
Truthy(v) ==
    \/ v.tag = "elem"
    \/ v.tag = "callable"
    \/ v.tag = "list" /\ v.val # <<>>

Return(v) == [exc |-> "", ret |-> v]
Raise(e) == [exc |-> e, ret |-> None]

-----------------------------------------------------------------------------
(* The locator registry *)

LOCATOR_MAP ==
    [css               |-> "css selector",
     id_               |-> "id",
     name              |-> "name",
     xpath             |-> "xpath",
     link_text         |-> "link text",
     partial_link_text |-> "partial link text",
     tag_name          |-> "tag name",
     class_name        |-> "class name"]

\* keywords a caller may pass: the registry's, and one it does not know
\* (the class docstring itself uses tag=...)
Keywords == DOMAIN LOCATOR_MAP \cup {"tag"}

Selectors == {"div.a", "foo"}

Classes == {"PageElement", "MultiPageElement"}

NoCondition == "None"
Conditions == {"presence_of_element_located", "presence_of_all_elements_located"}

NoBinding ==
    [cls |-> "", locator |-> <<>>, has_context |-> FALSE,
     wait_condition |-> NoCondition, wait_time |-> 0]

\* **kwargs: a dictionary from at most MaxKwargs keywords to selectors
KwargsSets ==
    UNION {[K -> Selectors] : K \in {S \in SUBSET Keywords : Cardinality(S) <= MaxKwargs}}

\* PageElement.__init__ without the `len(kwargs) > 1` test
PageElement_init_any(a) ==
    IF DOMAIN a.kwargs = {}
    THEN [exc |-> "ValueError: Please specify a locator", self |-> NoBinding]
    ELSE LET k == CHOOSE x \in DOMAIN a.kwargs : TRUE
             v == a.kwargs[k]
         IN  IF k \notin DOMAIN LOCATOR_MAP
             THEN [exc |-> "KeyError", self |-> NoBinding]
             ELSE [exc |-> "",
                   self |-> [cls |-> a.cls,
                             locator |-> <<LOCATOR_MAP[k], v>>,
                             has_context |-> a.context,
                             wait_condition |-> a.wait_condition,
                             wait_time |-> a.wait_time]]

\* PageElement.__init__(self, context, wait_condition, wait_time, **kwargs)
PageElement_init(a) ==
    IF DOMAIN a.kwargs = {}
    THEN [exc |-> "ValueError: Please specify a locator", self |-> NoBinding]
    ELSE IF Cardinality(DOMAIN a.kwargs) > 1
    THEN [exc |-> "ValueError: Please specify only one locator", self |-> NoBinding]
    ELSE LET k == CHOOSE x \in DOMAIN a.kwargs : TRUE
             v == a.kwargs[k]
         IN  IF k \notin DOMAIN LOCATOR_MAP
             THEN [exc |-> "KeyError", self |-> NoBinding]
             ELSE [exc |-> "",
                   self |-> [cls |-> a.cls,
                             locator |-> <<LOCATOR_MAP[k], v>>,
                             has_context |-> a.context,
                             wait_condition |-> a.wait_condition,
                             wait_time |-> a.wait_time]]

-----------------------------------------------------------------------------
(* The driver *)

Elems == 1..NumElems
Contexts == {"ctx"}
NoContext == "None"
Roots == {"w"} \cup Contexts

\* the matches of the binding's locator below one root, in document order
DomSeqs ==
    {s \in UNION {[1..n -> Elems] : n \in 0..NumElems} :
        \A i, j \in DOMAIN s : i # j => s[i] # s[j]}

Range(s) == {s[i] : i \in DOMAIN s}
Without(s, e) == SelectSeq(s, LAMBDA x : x # e)

\* the pages: a context element lies in the page, so what matches below it
\* also matches below the driver, in the same order
Doms ==
    {d \in [Roots -> DomSeqs] :
        \A c \in Contexts :
            d[c] = SelectSeq(d["w"], LAMBDA x : x \in Range(d[c]))}

InsertAt(s, i, e) == SubSeq(s, 1, i - 1) \o <<e>> \o SubSeq(s, i, Len(s))

\* the matches below context c of a page whose matches are w, when the
\* elements of inside lie in c
Below(w, inside) == SelectSeq(w, LAMBDA x : x \in inside)

\* the pages one edit away from d: a matching element is removed, or inserted
\* (inside the context elements of C), or moved into or out of a context element
Edits(d) ==
    {[r \in Roots |-> Without(d[r], e)] : e \in Range(d["w"])}
    \cup
    {[r \in Roots |->
         IF r = "w" THEN InsertAt(d["w"], x[2], x[1])
         ELSE IF r \in x[3]
         THEN Below(InsertAt(d["w"], x[2], x[1]), Range(d[r]) \cup {x[1]})
         ELSE d[r]] :
       x \in (Elems \ Range(d["w"])) \X (1..(Len(d["w"]) + 1)) \X (SUBSET Contexts)}
    \cup
    {[d EXCEPT ![x[1]] =
          IF x[2] \in Range(d[x[1]])
          THEN Without(d[x[1]], x[2])
          ELSE Below(d["w"], Range(d[x[1]]) \cup {x[2]})] :
       x \in Contexts \X Range(d["w"])}

\* root.find_element(by, value)
find_element(root, locator) ==
    IF dom[root] = <<>>
    THEN Raise("NoSuchElementException")
    ELSE Return(Elem(Head(dom[root])))

\* root.find_elements(by, value)
find_elements(root, locator) == Return(List(dom[root]))

Query(method, root, locator) ==
    [method |-> method, root |-> root, locator |-> locator]

-----------------------------------------------------------------------------
(* The descriptors *)

\* PageElement.find without the `except NoSuchElementException`
PageElement_find_uncaught(self, context) == find_element(context, self.locator)

\* PageElement.find that keeps the element an earlier read found
PageElement_find_cached(self, context) ==
    IF out.exc = "" /\ out.ret.tag = "elem"
    THEN out
    ELSE LET r == find_element(context, self.locator)
         IN  IF r.exc = "NoSuchElementException" THEN Return(None) ELSE r

\* PageElement.find
PageElement_find(self, context) ==
    LET r == find_element(context, self.locator)
    IN  IF r.exc = "NoSuchElementException" THEN Return(None) ELSE r

\* MultiPageElement.find
MultiPageElement_find(self, context) ==
    LET r == find_elements(context, self.locator)
    IN  IF r.exc = "NoSuchElementException" THEN Return(List(<<>>)) ELSE r

\* self.find(context), dispatched on the class of self
find(self, context) ==
    IF self.cls = "MultiPageElement"
    THEN MultiPageElement_find(self, context)
    ELSE PageElement_find(self, context)

\* the driver method self.find(context) calls
find_method(self) ==
    IF self.cls = "MultiPageElement" THEN "find_elements" ELSE "find_element"

\* self.wait_condition(self.locator)(context): one evaluation of the predicate
\* by WebDriverWait.until, which ignores NoSuchElementException
wait_predicate(self, context) ==
    LET r == IF self.wait_condition = "presence_of_all_elements_located"
             THEN find_elements(context, self.locator)
             ELSE find_element(context, self.locator)
    IN  IF r.exc = "NoSuchElementException" THEN None ELSE r.ret

wait_method(self) ==
    IF self.wait_condition = "presence_of_all_elements_located"
    THEN "find_elements" ELSE "find_element"

\* WebDriverWait.until when the time is over
until_timeout == Raise("TimeoutException")

\* PageElement.find_delayed without the `except TimeoutException`
PageElement_find_delayed_uncaught(self, r) == r

\* PageElement.find_delayed around the outcome r of WebDriverWait.until
PageElement_find_delayed(self, r) ==
    IF r.exc = "TimeoutException" THEN Return(None) ELSE r

\* PageElement.__get__ that resolves against the driver whatever the context
root_of_driver(instance, context) == "w"

\* PageElement.__get__: the root the binding is resolved against
root_of(instance, context) ==
    IF context = NoContext THEN "w" ELSE context

\* PageElement.__set__ that skips the write when nothing was found
PageElement_set_tail_silent(elem, value) ==
    IF ~Truthy(elem)
    THEN [exc |-> "", keys |-> <<>>]
    ELSE IF elem.tag # "elem"
    THEN [exc |-> "AttributeError", keys |-> <<>>]
    ELSE [exc |-> "", keys |-> <<[elem |-> elem.val[1], value |-> value]>>]

\* PageElement.__set__ after `elem = self.__get__(...)`
PageElement_set_tail(elem, value) ==
    IF ~Truthy(elem)
    THEN [exc |-> "ValueError: Can't set value, element not found", keys |-> <<>>]
    ELSE IF elem.tag # "elem"
    THEN [exc |-> "AttributeError", keys |-> <<>>]
    ELSE [exc |-> "", keys |-> <<[elem |-> elem.val[1], value |-> value]>>]

\* MultiPageElement.__set__ that sends the keys to the first element only
MultiPageElement_set_tail_first(elems, value) ==
    IF ~Truthy(elems)
    THEN [exc |-> "ValueError: Can't set value, no elements found", keys |-> <<>>]
    ELSE IF elems.tag # "list"
    THEN [exc |-> "TypeError", keys |-> <<>>]
    ELSE [exc |-> "", keys |-> <<[elem |-> elems.val[1], value |-> value]>>]

\* MultiPageElement.__set__ after `elems = self.__get__(...)`
MultiPageElement_set_tail(elems, value) ==
    IF ~Truthy(elems)
    THEN [exc |-> "ValueError: Can't set value, no elements found", keys |-> <<>>]
    ELSE IF elems.tag # "list"
    THEN [exc |-> "TypeError", keys |-> <<>>]
    ELSE [exc |-> "",
          keys |-> [i \in DOMAIN elems.val |->
                        [elem |-> elems.val[i], value |-> value]]]

set_tail(self, v, value) ==
    IF self.cls = "MultiPageElement"
    THEN MultiPageElement_set_tail(v, value)
    ELSE PageElement_set_tail(v, value)
-----------------------------------------------------------------------------
(* Reading and writing a binding through a page object *)

NoInstance == "None"
Instances == {"page"}
Values == {"abc", "xy"}

NoOp == [kind |-> "none", root |-> "", value |-> ""]
Pending == [exc |-> "pending", ret |-> None]

IdleFrame ==
    [pc |-> "none", iframe |-> "None", driver |-> "", calls |-> <<>>,
     steps |-> 0, blockExc |-> "", raised |-> ""]
IdlePage ==
    [pc |-> "none", given |-> <<>>, ambient |-> [present |-> FALSE, val |-> <<>>],
     root_uri |-> <<>>, navs |-> <<>>]

\* the expected condition that goes with a class: one that yields an element
\* for the single-result binding, one that yields a list for the multi-result
ConditionFor(cls) ==
    IF cls = "MultiPageElement"
    THEN "presence_of_all_elements_located"
    ELSE "presence_of_element_located"

\* the constructions whose bindings are read and written below
ReadArgs ==
    {a \in [cls : Classes, context : BOOLEAN,
            wait_condition : {NoCondition} \cup Conditions,
            wait_time : (1..MaxWaitTime) \cup {DefaultWaitTime},
            kwargs : {"css" :> "div.a", "id_" :> "foo"}] :
        /\ a.wait_condition \in {NoCondition, ConditionFor(a.cls)}
        /\ a.wait_condition = NoCondition <=> a.wait_time = DefaultWaitTime}

Init ==
    /\ args \in ReadArgs
    /\ binding = PageElement_init(args).self
    /\ ctorExc = PageElement_init(args).exc
    /\ dom \in Doms
    /\ pc = "idle"
    /\ op = NoOp
    /\ clock = 0
    /\ calls = <<>>
    /\ out = Return(None)
    /\ sent = <<>>
    /\ fresh = TRUE
    /\ frame = IdleFrame
    /\ page = IdlePage

\* __get__ ends with outcome r: a read hands it to the caller, __set__ goes
\* on to send the keys unless __get__ raised
Finish(kind, root, value, r, queries) ==
    /\ pc' = "idle"
    /\ op' = [kind |-> kind, root |-> root, value |-> value]
    /\ calls' = queries
    /\ fresh' = TRUE
    /\ IF kind = "set" /\ r.exc = ""
       THEN LET t == set_tail(binding, r.ret, value)
            IN  /\ out' = IF t.exc = "" THEN Return(None) ELSE Raise(t.exc)
                /\ sent' = t.keys
       ELSE /\ out' = r
            /\ sent' = <<>>

\* PageElement.__get__(self, instance, owner, context)
PageElement_get(kind, instance, context, value) ==
    IF instance = NoInstance
    THEN Finish(kind, "", value, Return(None), <<>>) /\ clock' = 0
    ELSE IF context = NoContext /\ binding.has_context
    THEN Finish(kind, "", value, Return(Callable), <<>>) /\ clock' = 0
    ELSE LET root == root_of(instance, context)
         IN  IF binding.wait_condition # NoCondition
             THEN \* find_delayed: WebDriverWait(context, wait_time).until(...)
                  /\ pc' = "poll"
                  /\ op' = [kind |-> kind, root |-> root, value |-> value]
                  /\ clock' = 0
                  /\ calls' = <<>>
                  /\ out' = Pending
                  /\ sent' = <<>>
                  /\ fresh' = FALSE
             ELSE /\ Finish(kind, root, value, find(binding, root),
                            <<Query(find_method(binding), root, binding.locator)>>)
                  /\ clock' = 0

\* page.attr  and  Page.attr
Read(instance) ==
    /\ pc = "idle"
    /\ PageElement_get(IF instance = NoInstance THEN "get_class" ELSE "get",
                       instance, NoContext, "")
    /\ UNCHANGED <<args, binding, ctorExc, dom, frame, page>>

\* page.attr(ctx): the lambda a contextual read returned, applied
Call(ctx) ==
    /\ pc = "idle"
    /\ out = Return(Callable)
    /\ PageElement_get("call", "page", ctx, "")
    /\ UNCHANGED <<args, binding, ctorExc, dom, frame, page>>

\* page.attr = value : PageElement.__set__ / MultiPageElement.__set__
Write(value) ==
    /\ pc = "idle"
    /\ IF binding.has_context
       THEN /\ pc' = "idle"
            /\ op' = [kind |-> "set", root |-> "", value |-> value]
            /\ clock' = 0
            /\ calls' = <<>>
            /\ out' = Raise("ValueError: Sorry, the set descriptor doesn't support elements with context.")
            /\ sent' = <<>>
            /\ fresh' = TRUE
       ELSE PageElement_get("set", "page", NoContext, value)
    /\ UNCHANGED <<args, binding, ctorExc, dom, frame, page>>

\* WebDriverWait.until: one evaluation of the predicate
Poll ==
    /\ pc = "poll"
    /\ LET v == wait_predicate(binding, op.root)
           queries == Append(calls, Query(wait_method(binding), op.root, binding.locator))
       IN  IF Truthy(v)
           THEN Finish(op.kind, op.root, op.value,
                       PageElement_find_delayed(binding, Return(v)), queries)
           ELSE /\ pc' = "sleep"
                /\ calls' = queries
                /\ UNCHANGED <<op, out, sent, fresh>>
    /\ UNCHANGED <<args, binding, ctorExc, dom, clock, frame, page>>

\* WebDriverWait.until: sleep one poll interval, then give up when the
\* time is over (TimeoutException, which find_delayed turns into None)
Tick ==
    /\ pc = "sleep"
    /\ clock' = clock + 1
    /\ IF clock' > binding.wait_time
       THEN Finish(op.kind, op.root, op.value,
                   PageElement_find_delayed(binding, until_timeout), calls)
       ELSE /\ pc' = "poll"
            /\ UNCHANGED <<op, calls, out, sent, fresh>>
    /\ UNCHANGED <<args, binding, ctorExc, dom, frame, page>>

\* the page changes under the test: an element appears, vanishes or moves
DomChange(d) ==
    /\ dom' = d
    /\ fresh' = FALSE
    /\ UNCHANGED <<args, binding, ctorExc, pc, op, clock, calls, out, sent, frame, page>>

Next ==
    \/ \E i \in Instances \cup {NoInstance} : Read(i)
    \/ \E c \in Contexts \cup {NoContext} : Call(c)
    \/ \E v \in Values : Write(v)
    \/ Poll
    \/ Tick
    \/ \E d \in Edits(dom) : DomChange(d)

Spec == Init /\ [][Next]_vars

\* a WebDriverWait blocks its caller until it returns: its loop keeps running
FairSpec == Spec /\ WF_vars(Poll) /\ WF_vars(Tick)

TypeOK ==
    /\ pc \in {"idle", "poll", "sleep"}
    /\ clock \in 0..(MaxWaitTime + 1)
    /\ Len(calls) <= MaxWaitTime + 1
-----------------------------------------------------------------------------
(* Constructing a binding *)

CtorArgs ==
    [cls : Classes, context : BOOLEAN,
     wait_condition : {NoCondition, "presence_of_element_located"},
     wait_time : {1, DefaultWaitTime},
     kwargs : KwargsSets]

InitCtor ==
    /\ args \in CtorArgs
    /\ binding = NoBinding
    /\ ctorExc = ""
    /\ dom = [r \in Roots |-> <<>>]
    /\ pc = "new"
    /\ op = NoOp
    /\ clock = 0
    /\ calls = <<>>
    /\ out = Return(None)
    /\ sent = <<>>
    /\ fresh = TRUE
    /\ frame = IdleFrame
    /\ page = IdlePage

\* attr = PageElement(context=..., wait_condition=..., wait_time=..., **kwargs)
Construct ==
    /\ pc = "new"
    /\ LET r == PageElement_init(args)
       IN  /\ binding' = r.self
           /\ ctorExc' = r.exc
           /\ pc' = IF r.exc = "" THEN "idle" ELSE "failed"
    /\ UNCHANGED <<args, dom, op, clock, calls, out, sent, fresh, frame, page>>

NextCtor == Construct

SpecCtor == InitCtor /\ [][NextCtor]_vars

-----------------------------------------------------------------------------
(* with IframeElement(iframe): block *)

Iframes == {"f1", "f2", "f3"}
NoIframe == "None"
BlockExceptions == {"AssertionError", "KeyError", "WebDriverException"}

\* iframe_element.parent: the driver session that owns the element
parent(iframe) == "w"

\* IframeElement.__init__
IframeElement_init(iframe_element) ==
    IF iframe_element = NoIframe
    THEN [exc |-> "ValueError: Please specify an iframe", iframe |-> NoIframe, driver |-> ""]
    ELSE [exc |-> "", iframe |-> iframe_element, driver |-> parent(iframe_element)]

\* IframeElement.__enter__: the driver call it makes
IframeElement_enter(self) == [method |-> "switch_to.frame", arg |-> self.iframe]

\* IframeElement.__exit__ that restores the context only after a clean block
IframeElement_exit_clean_only(self) ==
    IF self.blockExc = ""
    THEN <<[method |-> "switch_to_default_content", arg |-> ""]>>
    ELSE <<>>

\* IframeElement.__exit__: the driver calls it makes
IframeElement_exit(self) == <<[method |-> "switch_to_default_content", arg |-> ""]>>

\* IframeElement.__exit__: its return value (the method has no return statement)
IframeElement_exit_result(self) == None

InitFrame ==
    /\ args \in {a \in ReadArgs : a.cls = "PageElement" /\ ~a.context
                                  /\ a.wait_condition = NoCondition
                                  /\ "css" \in DOMAIN a.kwargs}
    /\ binding = PageElement_init(args).self
    /\ ctorExc = ""
    /\ dom = [r \in Roots |-> <<>>]
    /\ pc = "idle"
    /\ op = NoOp
    /\ clock = 0
    /\ calls = <<>>
    /\ out = Return(None)
    /\ sent = <<>>
    /\ fresh = TRUE
    /\ frame = [IdleFrame EXCEPT !.pc = "new"]
    /\ page = IdlePage

\* the with statement evaluates IframeElement(f)
FrameConstruct(f) ==
    /\ frame.pc = "new"
    /\ LET r == IframeElement_init(f)
       IN  frame' = [frame EXCEPT !.iframe = r.iframe, !.driver = r.driver,
                                  !.raised = r.exc,
                                  !.pc = IF r.exc = "" THEN "constructed" ELSE "done"]
    /\ UNCHANGED bindVars
    /\ UNCHANGED page

\* the with statement calls __enter__
Enter ==
    /\ frame.pc = "constructed"
    /\ frame' = [frame EXCEPT !.calls = Append(@, IframeElement_enter(frame)),
                              !.pc = "block"]
    /\ UNCHANGED bindVars
    /\ UNCHANGED page

\* a statement of the block: a query to the driver inside the frame
BlockStep ==
    /\ frame.pc = "block"
    /\ frame.steps < MaxBlockSteps
    /\ frame' = [frame EXCEPT !.calls = Append(@, [method |-> "find_element", arg |-> ""]),
                              !.steps = @ + 1]
    /\ UNCHANGED bindVars
    /\ UNCHANGED page

\* the block runs to its end
BlockReturn ==
    /\ frame.pc = "block"
    /\ frame' = [frame EXCEPT !.blockExc = "", !.pc = "exit"]
    /\ UNCHANGED bindVars
    /\ UNCHANGED page

\* the block raises e
BlockRaise(e) ==
    /\ frame.pc = "block"
    /\ frame' = [frame EXCEPT !.blockExc = e, !.pc = "exit"]
    /\ UNCHANGED bindVars
    /\ UNCHANGED page

\* the with statement calls __exit__(type, value, traceback) and re-raises
\* the block's exception unless __exit__ returned a true value
Exit ==
    /\ frame.pc = "exit"
    /\ frame' = [frame EXCEPT !.calls = @ \o IframeElement_exit(frame),
                              !.raised = IF Truthy(IframeElement_exit_result(frame))
                                         THEN "" ELSE frame.blockExc,
                              !.pc = "done"]
    /\ UNCHANGED bindVars
    /\ UNCHANGED page

NextFrame ==
    \/ \E f \in Iframes \cup {NoIframe} : FrameConstruct(f)
    \/ Enter
    \/ BlockStep
    \/ BlockReturn
    \/ \E e \in BlockExceptions : BlockRaise(e)
    \/ Exit

SpecFrame == InitFrame /\ [][NextFrame]_vars

-----------------------------------------------------------------------------
(* PageObject *)

\* an optional string: <<>> is None, <<s>> is the string s
NoneStr == <<>>
Str(s) == <<s>>

GivenUris == {NoneStr, Str(""), Str("http://x/")}
\* the driver's root_uri attribute: missing, or holding an optional string
AmbientUris ==
    [present : {FALSE}, val : {NoneStr}] \cup
    [present : {TRUE}, val : {NoneStr, Str(""), Str("http://d/")}]
Paths == {"foo", "", "a/b"}

\* truthiness of an optional string: None and "" are false
TruthyStr(u) == u # NoneStr /\ u # Str("")

\* getattr(self.w, 'root_uri', None)
getattr_root_uri(w) == IF w.present THEN w.val ELSE NoneStr

\* PageObject.__init__: the value of self.root_uri
PageObject_init(w, root_uri) ==
    IF TruthyStr(root_uri) THEN root_uri ELSE getattr_root_uri(w)

\* PageObject.get: the argument of self.w.get
PageObject_get(self_root_uri, uri) ==
    LET root_uri == IF TruthyStr(self_root_uri) THEN self_root_uri[1] ELSE ""
    IN  <<root_uri \o uri>>

InitPage ==
    /\ args \in {a \in ReadArgs : a.cls = "PageElement" /\ ~a.context
                                  /\ a.wait_condition = NoCondition
                                  /\ "css" \in DOMAIN a.kwargs}
    /\ binding = PageElement_init(args).self
    /\ ctorExc = ""
    /\ dom = [r \in Roots |-> <<>>]
    /\ pc = "idle"
    /\ op = NoOp
    /\ clock = 0
    /\ calls = <<>>
    /\ out = Return(None)
    /\ sent = <<>>
    /\ fresh = TRUE
    /\ frame = IdleFrame
    /\ page = [IdlePage EXCEPT !.pc = "new"]

\* page = PageObject(w, root_uri)
NewPage(w, root_uri) ==
    /\ page.pc = "new"
    /\ page' = [page EXCEPT !.given = root_uri, !.ambient = w,
                            !.root_uri = PageObject_init(w, root_uri),
                            !.pc = "ready"]
    /\ UNCHANGED bindVars
    /\ UNCHANGED frame

\* page.get(uri)
Navigate(uri) ==
    /\ page.pc = "ready"
    /\ Len(page.navs) < MaxNav
    /\ page' = [page EXCEPT !.navs = @ \o PageObject_get(page.root_uri, uri)]
    /\ UNCHANGED bindVars
    /\ UNCHANGED frame

NextPage ==
    \/ \E w \in AmbientUris, u \in GivenUris : NewPage(w, u)
    \/ \E p \in Paths : Navigate(p)

SpecPage == InitPage /\ [][NextPage]_vars
-----------------------------------------------------------------------------
(* Properties *)

Unsupported == "ValueError: Sorry, the set descriptor doesn't support elements with context."
ElementMissing == "ValueError: Can't set value, element not found"
ElementsMissing == "ValueError: Can't set value, no elements found"

Waiting == binding.wait_condition # NoCondition

\* what the driver reports below a root right now
FirstMatch(root) == IF dom[root] = <<>> THEN None ELSE Elem(Head(dom[root]))
AllMatches(root) == List(dom[root])

\* a read or a lambda call that was resolved against a root is over
ReadDone ==
    /\ pc = "idle"
    /\ op.kind \in {"get", "call"}
    /\ op.root # ""

\* C1: a write to a single-result binding fails with the unsupported-operation
\* error when the binding is contextual, whatever the DOM holds; otherwise it
\* fails with the element-not-found error when resolution found nothing, and
\* else sends exactly the written value, once, to the one resolved element.
\* A failing write sends nothing.
C1_WriteSingle ==
    (pc = "idle" /\ op.kind = "set" /\ binding.cls = "PageElement") =>
        /\ out.exc # "" => sent = <<>>
        /\ IF binding.has_context
           THEN out.exc = Unsupported /\ calls = <<>>
           ELSE /\ calls # <<>>
                /\ out.exc \in {"", ElementMissing}
                /\ out.exc = "" => Len(sent) = 1 /\ sent[1].value = op.value
                /\ out.exc = ElementMissing /\ Waiting => clock > binding.wait_time
                /\ fresh /\ dom["w"] = <<>> => out.exc = ElementMissing
                /\ fresh /\ out.exc = "" =>
                       /\ dom["w"] # <<>>
                       /\ sent = <<[elem |-> Head(dom["w"]), value |-> op.value]>>
                /\ fresh /\ ~Waiting /\ dom["w"] # <<>> => out.exc = ""

C1_Witness ==
    /\ pc = "idle" /\ op.kind = "set" /\ binding.cls = "PageElement"
    /\ ~binding.has_context /\ fresh
    /\ dom["w"] # <<>>
    /\ sent = <<[elem |-> Head(dom["w"]), value |-> "xy"]>>

\* C2: every read of a non-contextual multi-result binding through an instance
\* yields a sequence of elements, never the absent value, wait-configured
\* bindings included.
C2_MultiReadIsSequence ==
    (pc = "idle" /\ op.kind = "get" /\ binding.cls = "MultiPageElement"
        /\ ~binding.has_context) => out = Return(List(out.ret.val))

\* C3: a read of a contextual binding without a context yields a one-argument
\* callable and queries nothing; the callable applied to a context element
\* resolves with that element as the root, never the instance's driver, and
\* returns the result of that resolution.
C3_ContextualRead ==
    /\ (pc = "idle" /\ op.kind = "get" /\ binding.has_context) =>
           out = Return(Callable) /\ calls = <<>>
    /\ (op.kind = "call" /\ op.root # "") =>
           /\ op.root \in Contexts
           /\ \A i \in DOMAIN calls :
                  calls[i].root = op.root /\ calls[i].locator = binding.locator
           /\ pc = "idle" =>
                  /\ calls # <<>>
                  /\ out.exc = ""
                  /\ fresh /\ ~Waiting =>
                         out.ret = IF binding.cls = "PageElement"
                                   THEN FirstMatch(op.root) ELSE AllMatches(op.root)
                  /\ fresh /\ Waiting =>
                         \/ out.ret = None /\ clock > binding.wait_time
                         \/ out.ret = IF binding.cls = "PageElement"
                                      THEN FirstMatch(op.root) ELSE AllMatches(op.root)

C3_Witness ==
    /\ pc = "idle" /\ op.kind = "call" /\ op.root = "ctx" /\ fresh
    /\ binding.cls = "PageElement"
    /\ dom["ctx"] # <<>> /\ dom["w"] # <<>> /\ Head(dom["ctx"]) # Head(dom["w"])
    /\ out = Return(Elem(Head(dom["ctx"])))

\* the calls of a log that switch the browsing context
SwitchCalls(log) ==
    SelectSeq(log, LAMBDA c : c.method \in {"switch_to.frame", "switch_to_default_content"})

\* C4: once a with-block over an IframeElement is left, the driver has seen
\* exactly one switch to the given frame followed by exactly one switch to the
\* default content, whether the block ended or raised, and what the block
\* raised reaches the caller unchanged.
C4_FrameScope ==
    (frame.pc = "done" /\ frame.iframe # NoIframe) =>
        /\ SwitchCalls(frame.calls) =
               <<[method |-> "switch_to.frame", arg |-> frame.iframe],
                 [method |-> "switch_to_default_content", arg |-> ""]>>
        /\ Head(frame.calls).method = "switch_to.frame"
        /\ frame.calls[Len(frame.calls)].method = "switch_to_default_content"
        /\ frame.raised = frame.blockExc

C4_Witness ==
    /\ frame.pc = "done" /\ frame.iframe = "f2"
    /\ frame.blockExc = "KeyError" /\ frame.raised = "KeyError"
    /\ frame.steps > 0

\* C5: a write to a non-contextual multi-result binding resolves first; with
\* N >= 1 matches the written value goes to each of them once, in resolution
\* order; with no match it fails with the no-elements-found error and sends
\* nothing.
C5_WriteMulti ==
    (pc = "idle" /\ op.kind = "set" /\ binding.cls = "MultiPageElement"
        /\ ~binding.has_context) =>
        /\ calls # <<>>
        /\ out.exc \in {"", ElementsMissing}
        /\ out.exc # "" => sent = <<>>
        /\ out.exc = "" => Len(sent) >= 1 /\ \A i \in DOMAIN sent : sent[i].value = op.value
        /\ out.exc = ElementsMissing /\ Waiting => clock > binding.wait_time
        /\ fresh /\ dom["w"] = <<>> => out.exc = ElementsMissing
        /\ fresh /\ out.exc = "" =>
               sent = [i \in 1..Len(dom["w"]) |-> [elem |-> dom["w"][i], value |-> op.value]]
        /\ fresh /\ ~Waiting /\ dom["w"] # <<>> => out.exc = ""

C5_Witness ==
    /\ pc = "idle" /\ op.kind = "set" /\ binding.cls = "MultiPageElement"
    /\ ~binding.has_context /\ fresh
    /\ dom["w"] = <<2, 1>>
    /\ sent = <<[elem |-> 2, value |-> "abc"], [elem |-> 1, value |-> "abc"]>>

C7_PlainRead ==
    (pc = "idle" /\ op.kind = "get" /\ binding.cls = "PageElement"
        /\ ~binding.has_context /\ ~Waiting) =>
        /\ calls = <<Query("find_element", "w", binding.locator)>>
        /\ out.exc = ""
        /\ out.ret.tag \in {"None", "elem"}
        /\ fresh => out.ret = FirstMatch("w")

C7_Witness ==
    /\ pc = "idle" /\ op.kind = "get" /\ binding.cls = "PageElement"
    /\ ~binding.has_context /\ ~Waiting /\ fresh
    /\ dom["w"] = <<>> /\ out = Return(None) /\ Len(calls) = 1

\* the value the wait predicate of the binding reports for a root right now
PredicateNow(root) ==
    IF binding.cls = "PageElement" THEN FirstMatch(root) ELSE AllMatches(root)

C8_State ==
    (Waiting /\ op.root # "") =>
        /\ \A i \in DOMAIN calls :
               calls[i].root = op.root /\ calls[i].locator = binding.locator
        /\ pc # "idle" => clock <= binding.wait_time
        /\ (pc = "idle" /\ op.kind \in {"get", "call"}) =>
               /\ out.exc = ""
               /\ out.ret = None =>
                      clock = binding.wait_time + 1 /\ Len(calls) = binding.wait_time + 1
               /\ out.ret # None =>
                      /\ clock <= binding.wait_time /\ Len(calls) = clock + 1
                      /\ fresh => out.ret = PredicateNow(op.root)

\* a poll that finds the predicate true ends the wait with the element found
C8_Step ==
    (pc = "poll" /\ pc' # "poll" /\ op.kind \in {"get", "call"}) =>
        IF dom[op.root] # <<>>
        THEN pc' = "idle" /\ out' = Return(PredicateNow(op.root))
        ELSE pc' = "sleep"

\* C8: a read of a wait-configured binding polls the root with the predicate
\* of the binding's locator; when the predicate comes true within wait_time
\* the read returns what satisfied it; when it never does the read ends once
\* wait_time is over and returns absent, and no timeout error reaches the
\* caller. The read always ends.
C8_WaitRead ==
    /\ []C8_State
    /\ [][C8_Step]_vars
    /\ (pc # "idle") ~> (pc = "idle")

C8_Witness ==
    /\ pc = "idle" /\ op.kind = "get" /\ Waiting /\ binding.cls = "PageElement"
    /\ out = Return(None) /\ clock = binding.wait_time + 1
    /\ binding.wait_time = MaxWaitTime

C9_State ==
    (ReadDone /\ fresh) =>
        /\ calls # <<>>
        /\ \/ out = Return(PredicateNow(op.root))
           \/ Waiting /\ out = Return(None) /\ clock > binding.wait_time

\* C9: over any run of reads, writes and DOM changes the binding keeps the
\* attributes its constructor gave it, and every read queries the driver
\* anew, so that it returns what the DOM holds at that read and not what an
\* earlier read found.
C9_NoCaching ==
    /\ []C9_State
    /\ [][binding' = binding /\ binding = PageElement_init(args).self]_vars

C9_Witness ==
    /\ ReadDone /\ fresh /\ op.kind = "get" /\ ~Waiting
    /\ binding.cls = "PageElement"
    /\ out = Return(Elem(2)) /\ dom["w"] = <<2, 1>>

\* the base URI the claim expects
ExpectedBase(w, given) ==
    IF given # NoneStr THEN given
    ELSE IF w.present THEN w.val ELSE NoneStr

\* the string PageObject.get puts before the path for a base URI
Prefix(u) == IF u = NoneStr THEN "" ELSE u[1]

\* C10: the base URI of a page object is the one given when one is given,
\* else the driver's root_uri attribute, else absent; every get(path) asks the
\* driver for base URI (empty when absent) followed by path, once. (An absent
\* and an empty base URI are taken as the same base here: get treats them
\* alike.)
C10_BaseUri ==
    page.pc = "ready" =>
        /\ Prefix(page.root_uri) = Prefix(ExpectedBase(page.ambient, page.given))
        /\ \A i \in DOMAIN page.navs :
               \E p \in Paths :
                   page.navs[i] = Prefix(ExpectedBase(page.ambient, page.given)) \o p

====
